---- MODULE Spec2Model ----
(***************************************************************************)
(* GitHub OAuth login of the Flutter Test Coverage Sentinel:                *)
(*   - OAuthService      (services/oauthService.ts): credential store,      *)
(*     CSRF state, authorization URL, callback handling;                    *)
(*   - OAuthCallback     (components/OAuthCallback.tsx): the callback page, *)
(*     its retry policy and its redirect timers.                            *)
(*                                                                          *)
(* Three specifications share the definitions below:                        *)
(*   Spec          one client calling OAuthService, one call at a time;     *)
(*   SpecCallback  the OAuthCallback page with oauthService.handleCallback  *)
(*                 replaced by a double whose outcome the environment       *)
(*                 picks (the component on its own);                        *)
(*   SpecFlow      the OAuthCallback page on top of the real OAuthService   *)
(*                 and the answers of the token-exchange proxy.             *)
(* SpecCallbackFair adds the fairness of the browser's event loop: due      *)
(* timers fire, pending effects run, requests settle.                       *)
(***************************************************************************)
EXTENDS Integers, Sequences, FiniteSets, TLC

(***************************************************************************)
(* Bounds of the model.                                                     *)
(***************************************************************************)
\* generateState() is called at most this many times in one behaviour
MaxStates == 2
\* a request stays in flight for at most this many clock ticks
MaxLatency == 1
\* length of one clock tick in milliseconds (all delays of the page are
\* multiples of 500 ms)
TickMs == 500

(***************************************************************************)
(* Values.  An absent value (null) is the empty tuple, a present string v   *)
(* is <<v>>: null, "" and "null" stay three different things.               *)
(***************************************************************************)
None == << >>
Some(v) == << v >>
IsSome(o) == o # None
Val(o) == o[1]

\* String.prototype.includes
Includes(s, sub) ==
    \E i \in 1..(Len(s) - Len(sub) + 1) : SubSeq(s, i, i + Len(sub) - 1) = sub

\* Array.prototype.join over a sequence of strings
RECURSIVE Join(_, _)
Join(parts, sep) ==
    IF Len(parts) = 0 THEN ""
    ELSE IF Len(parts) = 1 THEN parts[1]
    ELSE parts[1] \o sep \o Join(Tail(parts), sep)

(***************************************************************************)
(* Configuration (services/oauthConfig.ts).                                 *)
(***************************************************************************)
STORAGE_KEYS ==
    [Token |-> "sentinel_oauth_token",
     State |-> "sentinel_oauth_state",
     User  |-> "sentinel_oauth_user"]

Keys == {STORAGE_KEYS.Token, STORAGE_KEYS.State, STORAGE_KEYS.User}

\* VITE_GITHUB_CLIENT_ID: set, or unset (the fallback '')
ClientIds == {"", "Iv1.c0ffee"}

\* GITHUB_OAUTH_CONFIG for a given client id; the redirect URI is the fallback
\* `${window.location.origin}/oauth/callback` of an application served from
\* https://app.test
GITHUB_OAUTH_CONFIG(cid) ==
    [clientId         |-> cid,
     redirectUri      |-> "https://app.test/oauth/callback",
     scope            |-> <<"repo", "read:user">>,
     authorizationUrl |-> "https://github.com/login/oauth/authorize",
     tokenUrl         |-> "https://github.com/login/oauth/access_token"]

(***************************************************************************)
(* localStorage.  A call runs in one of three conditions of the store:      *)
(*   "ok"       every access succeeds;                                      *)
(*   "full"     setItem throws (QuotaExceededError), reads and removals     *)
(*              succeed;                                                    *)
(*   "blocked"  every access throws (SecurityError on `localStorage`).      *)
(***************************************************************************)
StorageModes == {"ok", "full", "blocked"}
CanRead(mode) == mode # "blocked"
CanWrite(mode) == mode = "ok"

EmptyStorage == [k \in Keys |-> None]
GetItem(st, key) == st[key]
SetItem(st, key, v) == [st EXCEPT ![key] = Some(v)]
RemoveItem(st, key) == [st EXCEPT ![key] = None]

(***************************************************************************)
(* OAuthService: the credential store.  Each operator takes the store and   *)
(* the condition it is in, and gives the new store with what the method     *)
(* returns or throws.                                                       *)
(***************************************************************************)
StoreTokenError == "Unable to save authentication. Please check browser settings."

\* a variant that keeps a token that is already stored
storeToken_keep(st, mode, token) ==
    IF ~CanWrite(mode) THEN [storage |-> st, threw |-> Some(StoreTokenError)]
    ELSE IF IsSome(GetItem(st, STORAGE_KEYS.Token)) THEN [storage |-> st, threw |-> None]
    ELSE [storage |-> SetItem(st, STORAGE_KEYS.Token, token), threw |-> None]

storeToken(st, mode, token) ==
    IF CanWrite(mode)
    THEN [storage |-> SetItem(st, STORAGE_KEYS.Token, token), threw |-> None]
    ELSE [storage |-> st, threw |-> Some(StoreTokenError)]

getToken(st, mode) ==
    IF CanRead(mode) THEN GetItem(st, STORAGE_KEYS.Token) ELSE None

\* a variant that removes the token and leaves the user and the state
revokeToken_tokenonly(st, mode) ==
    IF CanRead(mode)
    THEN [storage |-> RemoveItem(st, STORAGE_KEYS.Token), threw |-> None]
    ELSE [storage |-> st, threw |-> None]

\* a variant without the try/catch around the removals
revokeToken_raise(st, mode) ==
    IF CanRead(mode)
    THEN [storage |-> RemoveItem(RemoveItem(RemoveItem(st, STORAGE_KEYS.Token),
                                            STORAGE_KEYS.User), STORAGE_KEYS.State),
          threw |-> None]
    ELSE [storage |-> st, threw |-> Some("The operation is insecure.")]

\* the catch block logs and returns: nothing is thrown
revokeToken(st, mode) ==
    IF CanRead(mode)
    THEN [storage |-> RemoveItem(RemoveItem(RemoveItem(st, STORAGE_KEYS.Token),
                                            STORAGE_KEYS.User), STORAGE_KEYS.State),
          threw |-> None]
    ELSE [storage |-> st, threw |-> None]

isAuthenticated(st, mode) ==
    LET token == getToken(st, mode)
    IN  IsSome(token) /\ Len(Val(token)) > 0

\* JSON.stringify of a GitHubUser whose fields need no escaping
JSONStringify(user) ==
    "{\"login\":\"" \o user.login \o "\",\"name\":\"" \o user.name
        \o "\",\"avatar_url\":\"" \o user.avatar_url
        \o "\",\"email\":\"" \o user.email \o "\"}"

storeUser(st, mode, user) ==
    IF CanWrite(mode) THEN SetItem(st, STORAGE_KEYS.User, JSONStringify(user)) ELSE st

\* the users of the model; their fields need no escaping in JSON
Users ==
    {[login |-> "octocat", name |-> "The Octocat",
      avatar_url |-> "https://avatars.test/u/1", email |-> "octocat@github.test"]}

\* values of the user key that JSON.stringify(user) did not write: a record
\* cut short, a word that is no JSON, and the empty string
CorruptUsers == {"{\"login\":\"octo", "undefined", ""}

\* JSON.parse on what the user key can hold: the user that was stringified,
\* null for "null", a SyntaxError for text that is no JSON
JSONParse(text) ==
    IF \E u \in Users : JSONStringify(u) = text
    THEN [value |-> Some(CHOOSE u \in Users : JSONStringify(u) = text), threw |-> FALSE]
    ELSE IF text = "null" THEN [value |-> None, threw |-> FALSE]
    ELSE [value |-> None, threw |-> TRUE]

\* a variant without the try/catch around the read and the parse
getUser_raise(st, mode) ==
    IF ~CanRead(mode) THEN [user |-> None, threw |-> Some("SecurityError")]
    ELSE LET userJson == GetItem(st, STORAGE_KEYS.User)
         IN  IF userJson = None \/ userJson = Some("") THEN [user |-> None, threw |-> None]
             ELSE IF JSONParse(Val(userJson)).threw
             THEN [user |-> None, threw |-> Some("SyntaxError")]
             ELSE [user |-> JSONParse(Val(userJson)).value, threw |-> None]

\* userJson ? JSON.parse(userJson) : null, null from the catch block
getUser(st, mode) ==
    IF ~CanRead(mode) THEN [user |-> None, threw |-> None]
    ELSE LET userJson == GetItem(st, STORAGE_KEYS.User)
         IN  IF userJson = None \/ userJson = Some("") THEN [user |-> None, threw |-> None]
             ELSE IF JSONParse(Val(userJson)).threw THEN [user |-> None, threw |-> None]
             ELSE [user |-> JSONParse(Val(userJson)).value, threw |-> None]

\* the values crypto.getRandomValues yields are taken to be fresh: the n-th
\* call of generateState returns the n-th name
StateNames == <<"a1f0", "b2e1", "c3d2", "d4c3", "e5b4", "f6a5">>
generateState(n) == StateNames[n]

\* a variant that keeps a state that is already pending
storeState_keepfirst(st, mode, state) ==
    IF CanWrite(mode) /\ GetItem(st, STORAGE_KEYS.State) = None
    THEN SetItem(st, STORAGE_KEYS.State, state) ELSE st

storeState(st, mode, state) ==
    IF CanWrite(mode) THEN SetItem(st, STORAGE_KEYS.State, state) ELSE st

\* a variant that compares without consuming the stored state
validateState_keep(st, mode, state) ==
    IF CanRead(mode)
    THEN [storage |-> st, result |-> GetItem(st, STORAGE_KEYS.State) = Some(state)]
    ELSE [storage |-> st, result |-> FALSE]

validateState(st, mode, state) ==
    IF CanRead(mode)
    THEN [storage |-> RemoveItem(st, STORAGE_KEYS.State),
          result  |-> GetItem(st, STORAGE_KEYS.State) = Some(state)]
    ELSE [storage |-> st, result |-> FALSE]

(***************************************************************************)
(* URLSearchParams: application/x-www-form-urlencoded serialising and       *)
(* parsing, for the characters the configuration and the state contain.     *)
(***************************************************************************)
EncodeChar(c) ==
    CASE c = " " -> "+"
      [] c = ":" -> "%3A"
      [] c = "/" -> "%2F"
      [] OTHER   -> c

RECURSIVE FormEncode(_)
FormEncode(s) ==
    IF s = "" THEN ""
    ELSE EncodeChar(SubSeq(s, 1, 1)) \o FormEncode(SubSeq(s, 2, Len(s)))

RECURSIVE FormDecode(_)
FormDecode(s) ==
    IF s = "" THEN ""
    ELSE IF SubSeq(s, 1, 1) = "+" THEN " " \o FormDecode(SubSeq(s, 2, Len(s)))
    ELSE IF Len(s) >= 3 /\ SubSeq(s, 1, 3) = "%3A" THEN ":" \o FormDecode(SubSeq(s, 4, Len(s)))
    ELSE IF Len(s) >= 3 /\ SubSeq(s, 1, 3) = "%2F" THEN "/" \o FormDecode(SubSeq(s, 4, Len(s)))
    ELSE SubSeq(s, 1, 1) \o FormDecode(SubSeq(s, 2, Len(s)))

\* position of the first occurrence of the one-character string c in s, 0 if none
IndexOf(s, c) ==
    IF \E i \in 1..Len(s) : SubSeq(s, i, i) = c
    THEN CHOOSE i \in 1..Len(s) :
            /\ SubSeq(s, i, i) = c
            /\ \A j \in 1..(i - 1) : SubSeq(s, j, j) # c
    ELSE 0

RECURSIVE Split(_, _)
Split(s, c) ==
    LET i == IndexOf(s, c)
    IN  IF i = 0 THEN << s >>
        ELSE << SubSeq(s, 1, i - 1) >> \o Split(SubSeq(s, i + 1, Len(s)), c)

\* new URLSearchParams(record).toString(), the entries in insertion order
SearchParamsToString(entries) ==
    Join([i \in 1..Len(entries) |->
            FormEncode(entries[i][1]) \o "=" \o FormEncode(entries[i][2])], "&")

\* new URL(url): the part before '?' and the decoded query entries
ParseUrl(url) ==
    LET q == IndexOf(url, "?")
        query == IF q = 0 THEN "" ELSE SubSeq(url, q + 1, Len(url))
        pairs == IF query = "" THEN << >> ELSE Split(query, "&")
    IN  [base |-> IF q = 0 THEN url ELSE SubSeq(url, 1, q - 1),
         searchParams |->
            [i \in 1..Len(pairs) |->
                LET e == IndexOf(pairs[i], "=")
                IN  IF e = 0 THEN << FormDecode(pairs[i]), "" >>
                    ELSE << FormDecode(SubSeq(pairs[i], 1, e - 1)),
                            FormDecode(SubSeq(pairs[i], e + 1, Len(pairs[i]))) >>]]

\* URLSearchParams.get: the first value of the name, null if there is none
SearchParamsGet(params, name) ==
    IF \E i \in 1..Len(params) : params[i][1] = name
    THEN Some(params[CHOOSE i \in 1..Len(params) :
                        /\ params[i][1] = name
                        /\ \A j \in 1..(i - 1) : params[j][1] # name][2])
    ELSE None

(***************************************************************************)
(* OAuthService.generateAuthUrl: the n-th generated state is stored (a      *)
(* failed write is only logged) and the URL is built around it.             *)
(***************************************************************************)
\* a variant that joins the scopes with a comma
generateAuthUrl_comma(st, mode, cid, n) ==
    LET state == generateState(n)
        cfg == GITHUB_OAUTH_CONFIG(cid)
    IN  [storage |-> storeState(st, mode, state),
         url |-> cfg.authorizationUrl \o "?" \o SearchParamsToString(<<
                    <<"client_id", cfg.clientId>>,
                    <<"redirect_uri", cfg.redirectUri>>,
                    <<"scope", Join(cfg.scope, ",")>>,
                    <<"state", state>>,
                    <<"allow_signup", "true">> >>)]

generateAuthUrl(st, mode, cid, n) ==
    LET state == generateState(n)
        cfg == GITHUB_OAUTH_CONFIG(cid)
    IN  [storage |-> storeState(st, mode, state),
         url |-> cfg.authorizationUrl \o "?" \o SearchParamsToString(<<
                    <<"client_id", cfg.clientId>>,
                    <<"redirect_uri", cfg.redirectUri>>,
                    <<"scope", Join(cfg.scope, " ")>>,
                    <<"state", state>>,
                    <<"allow_signup", "true">> >>)]

\* OAuthService.initiateOAuth: what it throws, or the URL it assigns to
\* window.location.href after generateAuthUrl stored the n-th state
NotConfiguredMessage ==
    "OAuth is not configured. Please set VITE_GITHUB_CLIENT_ID in environment variables."

\* a variant without the check of the client id
initiateOAuth_nocheck(st, mode, cid, n) ==
    LET g == generateAuthUrl(st, mode, cid, n)
    IN  [storage |-> g.storage, threw |-> None, href |-> Some(g.url), generated |-> 1]

initiateOAuth(st, mode, cid, n) ==
    IF cid = ""
    THEN [storage |-> st, threw |-> Some(NotConfiguredMessage), href |-> None,
          generated |-> 0]
    ELSE LET g == generateAuthUrl(st, mode, cid, n)
         IN  [storage |-> g.storage, threw |-> None, href |-> Some(g.url),
              generated |-> 1]

(***************************************************************************)
(* Errors and HTTP answers.                                                 *)
(***************************************************************************)
Error(message) == [name |-> "Error", message |-> message]

InvalidStateError == Error("Invalid state parameter. Possible CSRF attack.")
ExchangeFailedMessage == "Failed to exchange authorization code"
NoTokenError == Error("No access token received from server")
ProxyNotConfiguredError ==
    Error("OAuth proxy is not configured. Please deploy the backend function.")

\* fetch() rejecting: the TypeError of Chromium, Firefox and WebKit
FetchRejections ==
    {[name |-> "TypeError", message |-> "Failed to fetch"],
     [name |-> "TypeError", message |-> "NetworkError when attempting to fetch resource."],
     [name |-> "TypeError", message |-> "Load failed"]}

\* response.json() rejecting on a body that is not JSON
JsonSyntaxError ==
    [name |-> "SyntaxError", message |-> "Unexpected token < in JSON at position 0"]

Rejected(e) ==
    [kind |-> "rejects", error |-> e, ok |-> FALSE, status |-> 0, parses |-> FALSE,
     message |-> None, access_token |-> None]
Response(status, parses, message, token) ==
    [kind |-> "response", error |-> Error(""), ok |-> (status >= 200 /\ status <= 299),
     status |-> status, parses |-> parses, message |-> message, access_token |-> token]

\* what the browser can get back from POST /api/oauth: the answers of
\* api/oauth.ts, a page that is not JSON (the function is not deployed, a
\* gateway timeout), or no answer at all
ProxyAnswers ==
    { Rejected(e) : e \in FetchRejections } \cup
    { Response(200, TRUE, None, Some("gho_tok1")),
      Response(200, TRUE, None, None),
      Response(200, FALSE, None, None),
      Response(400, TRUE, Some("The code passed is incorrect or expired."), None),
      Response(500, TRUE, Some("fetch failed"), None),
      Response(500, TRUE, Some("network timeout at: https://github.com/login/oauth/access_token"), None),
      Response(404, FALSE, None, None) }

\* what the browser can get back from GET https://api.github.com/user
UserAnswers ==
    { [kind |-> "rejects", ok |-> FALSE, parses |-> FALSE, user |-> None],
      [kind |-> "response", ok |-> FALSE, parses |-> TRUE, user |-> None],
      [kind |-> "response", ok |-> TRUE, parses |-> FALSE, user |-> None] } \cup
    { [kind |-> "response", ok |-> TRUE, parses |-> TRUE, user |-> Some(u)] : u \in Users }

(***************************************************************************)
(* OAuthService.exchangeCodeForToken, from the answer to its fetch:         *)
(* <<token>> with no error, or the error it throws.                         *)
(***************************************************************************)
\* what the try block returns or throws
ExchangeTry(resp) ==
    IF resp.kind = "rejects" THEN [token |-> None, error |-> Some(resp.error)]
    ELSE IF ~resp.ok
    THEN [token |-> None,
          error |-> Some(Error(IF resp.parses /\ IsSome(resp.message) /\ Val(resp.message) # ""
                               THEN Val(resp.message) ELSE ExchangeFailedMessage))]
    ELSE IF ~resp.parses THEN [token |-> None, error |-> Some(JsonSyntaxError)]
    ELSE IF resp.access_token = None \/ resp.access_token = Some("")
    THEN [token |-> None, error |-> Some(NoTokenError)]
    ELSE [token |-> resp.access_token, error |-> None]

exchangeCodeForToken(resp) ==
    LET r == ExchangeTry(resp)
    IN  IF IsSome(r.error) /\ Includes(Val(r.error).message, "fetch")
        THEN [token |-> None, error |-> Some(ProxyNotConfiguredError)]
        ELSE r

(***************************************************************************)
(* OAuthService.fetchAndStoreUser: the store after the answer to its fetch; *)
(* it never throws.                                                         *)
(***************************************************************************)
fetchAndStoreUser(st, mode, resp) ==
    IF resp.kind = "response" /\ resp.ok /\ resp.parses
    THEN storeUser(st, mode, Val(resp.user))
    ELSE st

(***************************************************************************)
(* OAuthService.handleCallback, one operator per segment between awaits.    *)
(*   pc "exchange": the POST to the proxy is in flight;                     *)
(*   pc "user":     the token is stored, the GET of the profile in flight;  *)
(*   pc "done":     the promise is settled (ret or error).                  *)
(***************************************************************************)
\* a variant that skips the state check
handleCallbackStart_nocheck(st, mode, code, state, cid) ==
    [storage |-> validateState(st, mode, state).storage, pc |-> "exchange",
     error |-> None,
     requests |-> << [code |-> code, client_id |-> GITHUB_OAUTH_CONFIG(cid).clientId,
                      redirect_uri |-> GITHUB_OAUTH_CONFIG(cid).redirectUri] >>]

handleCallbackStart(st, mode, code, state, cid) ==
    LET v == validateState(st, mode, state)
    IN  IF ~v.result
        THEN [storage |-> v.storage, pc |-> "done", error |-> Some(InvalidStateError),
              requests |-> << >>]
        ELSE [storage |-> v.storage, pc |-> "exchange", error |-> None,
              requests |-> << [code |-> code,
                               client_id |-> GITHUB_OAUTH_CONFIG(cid).clientId,
                               redirect_uri |-> GITHUB_OAUTH_CONFIG(cid).redirectUri] >>]

\* a variant that returns the token without storing it
handleCallbackToken_nostore(st, mode, resp) ==
    LET x == exchangeCodeForToken(resp)
    IN  IF IsSome(x.error)
        THEN [storage |-> st, pc |-> "done", token |-> None, error |-> x.error]
        ELSE [storage |-> st, pc |-> "user", token |-> x.token, error |-> None]

\* a variant that ends the session when the exchange fails
handleCallbackToken_clear(st, mode, resp) ==
    LET x == exchangeCodeForToken(resp)
    IN  IF IsSome(x.error)
        THEN [storage |-> revokeToken(st, mode).storage, pc |-> "done",
              token |-> None, error |-> x.error]
        ELSE LET w == storeToken(st, mode, Val(x.token))
             IN  IF IsSome(w.threw)
                 THEN [storage |-> w.storage, pc |-> "done", token |-> None,
                       error |-> Some(Error(Val(w.threw)))]
                 ELSE [storage |-> w.storage, pc |-> "user", token |-> x.token,
                       error |-> None]

handleCallbackToken(st, mode, resp) ==
    LET x == exchangeCodeForToken(resp)
    IN  IF IsSome(x.error)
        THEN [storage |-> st, pc |-> "done", token |-> None, error |-> x.error]
        ELSE LET w == storeToken(st, mode, Val(x.token))
             IN  IF IsSome(w.threw)
                 THEN [storage |-> w.storage, pc |-> "done", token |-> None,
                       error |-> Some(Error(Val(w.threw)))]
                 ELSE [storage |-> w.storage, pc |-> "user", token |-> x.token,
                       error |-> None]

\* how the fetch of the profile ended
ProfileOutcome(resp) ==
    IF resp.kind = "rejects" THEN "rejects"
    ELSE IF ~resp.ok THEN "status"
    ELSE IF ~resp.parses THEN "unparsable"
    ELSE "user"

\* a variant that lets a failure of fetchAndStoreUser fail the callback
handleCallbackUser_rethrow(st, mode, resp, token) ==
    IF ProfileOutcome(resp) = "user"
    THEN [storage |-> fetchAndStoreUser(st, mode, resp), pc |-> "done", ret |-> token]
    ELSE [storage |-> st, pc |-> "done", ret |-> None]

handleCallbackUser(st, mode, resp, token) ==
    [storage |-> fetchAndStoreUser(st, mode, resp), pc |-> "done", ret |-> token]

(***************************************************************************)
(* OAuthCallback (components/OAuthCallback.tsx).  The view of the page is   *)
(* the record [status, message, retryCount, timers]; the operators below    *)
(* are the branches of the handler of its effect.  A timer is               *)
(* [kind, rc, left]: kind "redirect" assigns window.location.href, kind     *)
(* "handler" calls handleCallback of the render whose retryCount was rc;    *)
(* left is the time in ms until it is due.                                  *)
(***************************************************************************)
MAX_RETRIES == 3

RECURSIVE Pow2(_)
Pow2(n) == IF n <= 0 THEN 1 ELSE 2 * Pow2(n - 1)

\* !code: null and "" are both falsy
Falsy(o) == o = None \/ o = Some("")

\* the timer queue of the event loop is kept in the order in which the
\* timers run: by the time left, timers due at the same time by creation
setTimeout(timers, kind, rc, delay) ==
    LET before == Cardinality({ i \in 1..Len(timers) : timers[i].left <= delay })
    IN  SubSeq(timers, 1, before)
        \o << [kind |-> kind, rc |-> rc, left |-> delay] >>
        \o SubSeq(timers, before + 1, Len(timers))

InitialView ==
    [status |-> "processing", message |-> "Processing authorization...",
     retryCount |-> 0, timers |-> << >>]

\* a variant that does not look at the error parameter
handleCallbackParams_nodenial(q) ==
    IF Falsy(q.code) \/ Falsy(q.state) THEN "missing" ELSE "exchange"

\* which way the handler goes on the query string
handleCallbackParams(q) ==
    IF q.error = Some("access_denied") THEN "denied"
    ELSE IF Falsy(q.code) \/ Falsy(q.state) THEN "missing"
    ELSE "exchange"

handleCallbackDenied(v) ==
    [v EXCEPT !.status = "error",
              !.message = "Authorization was cancelled. Redirecting...",
              !.timers = setTimeout(@, "redirect", 0, 2000)]

handleCallbackMissing(v) ==
    [v EXCEPT !.status = "error",
              !.message = "Invalid authorization response. Redirecting...",
              !.timers = setTimeout(@, "redirect", 0, 2000)]

\* after await oauthService.handleCallback(code, state) resolved
handleCallbackSuccess(v) ==
    [v EXCEPT !.status = "success",
              !.message = "Authorization successful! Redirecting...",
              !.timers = setTimeout(@, "redirect", 0, 1500)]

\* a variant that also retries an error that mentions an attack
isRetryableError_attack(error) ==
    \/ Includes(error.message, "network")
    \/ Includes(error.message, "timeout")
    \/ Includes(error.message, "fetch")
    \/ Includes(error.message, "attack")
    \/ error.name = "NetworkError"

isRetryableError(error) ==
    \/ Includes(error.message, "network")
    \/ Includes(error.message, "timeout")
    \/ Includes(error.message, "fetch")
    \/ error.name = "NetworkError"

\* a variant of the catch block whose last branch schedules no redirect
handleCallbackCatch_stay(v, rc, error) ==
    IF isRetryableError(error) /\ rc < MAX_RETRIES
    THEN [v EXCEPT !.retryCount = @ + 1,
                   !.message = "Connection failed. Retrying (" \o ToString(rc + 1)
                               \o "/" \o ToString(MAX_RETRIES) \o ")...",
                   !.timers = setTimeout(@, "handler", rc, Pow2(rc) * 1000)]
    ELSE [v EXCEPT !.status = "error",
                   !.message = IF rc >= MAX_RETRIES
                               THEN "Failed after " \o ToString(MAX_RETRIES)
                                    \o " attempts. Redirecting..."
                               ELSE IF error.message # "" THEN error.message
                               ELSE "Authorization failed. Redirecting..."]

\* the catch block of the handler of the render whose retryCount was rc;
\* setRetryCount(prev => prev + 1) counts from the current state
handleCallbackCatch(v, rc, error) ==
    IF isRetryableError(error) /\ rc < MAX_RETRIES
    THEN [v EXCEPT !.retryCount = @ + 1,
                   !.message = "Connection failed. Retrying (" \o ToString(rc + 1)
                               \o "/" \o ToString(MAX_RETRIES) \o ")...",
                   !.timers = setTimeout(@, "handler", rc, Pow2(rc) * 1000)]
    ELSE [v EXCEPT !.status = "error",
                   !.message = IF rc >= MAX_RETRIES
                               THEN "Failed after " \o ToString(MAX_RETRIES)
                                    \o " attempts. Redirecting..."
                               ELSE IF error.message # "" THEN error.message
                               ELSE "Authorization failed. Redirecting...",
                   !.timers = setTimeout(@, "redirect", 0, 3000)]

(***************************************************************************)
(* The token-exchange proxy (api/oauth.ts), a serverless function.  A       *)
(* request is [method, body]; body is None when the runtime parsed no body  *)
(* (req.body is undefined), else <<fields>> with code, client_id and        *)
(* redirect_uri, each None when the property is missing.  A response is     *)
(* [status, headers, body]; body None is the empty body of end(), else      *)
(* <<json>>; a property that is undefined is left out by JSON.stringify and *)
(* is None here.                                                            *)
(***************************************************************************)
CorsHeaders ==
    { <<"Access-Control-Allow-Origin", "*">>,
      <<"Access-Control-Allow-Methods", "POST, OPTIONS">>,
      <<"Access-Control-Allow-Headers", "Content-Type">> }

Json(error, message, access_token, token_type, scope) ==
    Some([error |-> error, message |-> message, access_token |-> access_token,
          token_type |-> token_type, scope |-> scope])

ErrorJson(error, message) == Json(Some(error), Some(message), None, None, None)

Res(status, body) == [status |-> status, headers |-> CorsHeaders, body |-> body]

\* !x on a string that may be undefined
Missing(o) == o = None \/ o = Some("")

DestructureError ==
    "Cannot destructure property 'code' of 'req.body' as it is undefined."

\* the catch block of the handler
InternalError(message) ==
    Res(500, ErrorJson("Internal server error",
                       IF message = "" THEN "An unexpected error occurred" ELSE message))

\* a variant that calls GitHub without a secret
handlerStart_nosecretcheck(req, secret) ==
    IF req.method = "OPTIONS"
    THEN [pc |-> "idle", res |-> Some(Res(200, None)), readBody |-> FALSE, upstream |-> << >>]
    ELSE IF req.method # "POST"
    THEN [pc |-> "idle", res |-> Some(Res(405, Json(Some("Method not allowed"), None, None, None, None))),
          readBody |-> FALSE, upstream |-> << >>]
    ELSE IF req.body = None
    THEN [pc |-> "idle", res |-> Some(InternalError(DestructureError)),
          readBody |-> TRUE, upstream |-> << >>]
    ELSE IF Missing(Val(req.body).code) \/ Missing(Val(req.body).client_id)
            \/ Missing(Val(req.body).redirect_uri)
    THEN [pc |-> "idle",
          res |-> Some(Res(400, ErrorJson("Missing required parameters",
                                          "code, client_id, and redirect_uri are required"))),
          readBody |-> TRUE, upstream |-> << >>]
    ELSE [pc |-> "upstream", res |-> None, readBody |-> TRUE,
          upstream |-> << [client_id |-> Val(Val(req.body).client_id),
                           client_secret |-> IF secret = None THEN "" ELSE Val(secret),
                           code |-> Val(Val(req.body).code),
                           redirect_uri |-> Val(Val(req.body).redirect_uri)] >>]

\* a variant that only lets OPTIONS through before it reads the body
handlerStart_anymethod(req, secret) ==
    IF req.method = "OPTIONS"
    THEN [pc |-> "idle", res |-> Some(Res(200, None)), readBody |-> FALSE, upstream |-> << >>]
    ELSE IF req.body = None
    THEN [pc |-> "idle", res |-> Some(InternalError(DestructureError)),
          readBody |-> TRUE, upstream |-> << >>]
    ELSE IF Missing(Val(req.body).code) \/ Missing(Val(req.body).client_id)
            \/ Missing(Val(req.body).redirect_uri)
    THEN [pc |-> "idle",
          res |-> Some(Res(400, ErrorJson("Missing required parameters",
                                          "code, client_id, and redirect_uri are required"))),
          readBody |-> TRUE, upstream |-> << >>]
    ELSE IF Missing(secret)
    THEN [pc |-> "idle",
          res |-> Some(Res(500, ErrorJson("Server configuration error",
                                          "OAuth is not properly configured on the server"))),
          readBody |-> TRUE, upstream |-> << >>]
    ELSE [pc |-> "upstream", res |-> None, readBody |-> TRUE,
          upstream |-> << [client_id |-> Val(Val(req.body).client_id),
                           client_secret |-> Val(secret),
                           code |-> Val(Val(req.body).code),
                           redirect_uri |-> Val(Val(req.body).redirect_uri)] >>]

\* the handler from the request to its response or to its fetch of
\* https://github.com/login/oauth/access_token
handlerStart(req, secret) ==
    IF req.method = "OPTIONS"
    THEN [pc |-> "idle", res |-> Some(Res(200, None)), readBody |-> FALSE, upstream |-> << >>]
    ELSE IF req.method # "POST"
    THEN [pc |-> "idle", res |-> Some(Res(405, Json(Some("Method not allowed"), None, None, None, None))),
          readBody |-> FALSE, upstream |-> << >>]
    ELSE IF req.body = None
    THEN [pc |-> "idle", res |-> Some(InternalError(DestructureError)),
          readBody |-> TRUE, upstream |-> << >>]
    ELSE IF Missing(Val(req.body).code) \/ Missing(Val(req.body).client_id)
            \/ Missing(Val(req.body).redirect_uri)
    THEN [pc |-> "idle",
          res |-> Some(Res(400, ErrorJson("Missing required parameters",
                                          "code, client_id, and redirect_uri are required"))),
          readBody |-> TRUE, upstream |-> << >>]
    ELSE IF Missing(secret)
    THEN [pc |-> "idle",
          res |-> Some(Res(500, ErrorJson("Server configuration error",
                                          "OAuth is not properly configured on the server"))),
          readBody |-> TRUE, upstream |-> << >>]
    ELSE [pc |-> "upstream", res |-> None, readBody |-> TRUE,
          upstream |-> << [client_id |-> Val(Val(req.body).client_id),
                           client_secret |-> Val(secret),
                           code |-> Val(Val(req.body).code),
                           redirect_uri |-> Val(Val(req.body).redirect_uri)] >>]

\* what https://github.com/login/oauth/access_token can answer: no answer
\* (fetch rejects), or a status with a body that parses to
\* GitHubTokenResponse or does not parse
UpstreamRejected(message) ==
    [kind |-> "rejects", message |-> message, status |-> 0, parses |-> FALSE,
     access_token |-> None, token_type |-> None, scope |-> None,
     error |-> None, error_description |-> None]

UpstreamResponse(status, parses, access_token, error, error_description) ==
    [kind |-> "response", message |-> "", status |-> status, parses |-> parses,
     access_token |-> access_token,
     token_type |-> IF IsSome(access_token) THEN Some("bearer") ELSE None,
     scope |-> IF IsSome(access_token) THEN Some("repo,read:user") ELSE None,
     error |-> error, error_description |-> error_description]

UpstreamAnswers ==
    { UpstreamRejected("fetch failed"),
      UpstreamResponse(200, TRUE, Some("gho_tok1"), None, None),
      UpstreamResponse(200, TRUE, None, Some("bad_verification_code"),
                       Some("The code passed is incorrect or expired.")),
      UpstreamResponse(200, TRUE, None, Some("incorrect_client_credentials"), None),
      UpstreamResponse(200, TRUE, None, None, None),
      UpstreamResponse(200, FALSE, None, None, None),
      UpstreamResponse(404, FALSE, None, None, None),
      UpstreamResponse(422, TRUE, None, Some("unprocessable"), None),
      UpstreamResponse(503, FALSE, None, None, None) }

UpstreamOk(ans) == ans.status >= 200 /\ ans.status <= 299

\* a variant that answers every failure with 400
handlerUpstream_flat(ans) ==
    IF ans.kind = "rejects" THEN InternalError(ans.message)
    ELSE IF ~UpstreamOk(ans)
    THEN Res(400, ErrorJson("Token exchange failed",
                            "Failed to exchange authorization code for access token"))
    ELSE IF ~ans.parses
    THEN InternalError("Unexpected token < in JSON at position 0")
    ELSE IF ~Missing(ans.error)
    THEN Res(400, Json(ans.error,
                       IF Missing(ans.error_description) THEN Some("Authorization failed")
                       ELSE ans.error_description, None, None, None))
    ELSE Res(200, Json(None, None, ans.access_token, ans.token_type, ans.scope))

\* the handler from the answer of GitHub to its response
handlerUpstream(ans) ==
    IF ans.kind = "rejects" THEN InternalError(ans.message)
    ELSE IF ~UpstreamOk(ans)
    THEN Res(ans.status, ErrorJson("Token exchange failed",
                                   "Failed to exchange authorization code for access token"))
    ELSE IF ~ans.parses
    THEN InternalError("Unexpected token < in JSON at position 0")
    ELSE IF ~Missing(ans.error)
    THEN Res(400, Json(ans.error,
                       IF Missing(ans.error_description) THEN Some("Authorization failed")
                       ELSE ans.error_description, None, None, None))
    ELSE Res(200, Json(None, None, ans.access_token, ans.token_type, ans.scope))

(***************************************************************************)
(* State.                                                                   *)
(***************************************************************************)
VARIABLES
    storage,    \* localStorage of the origin: key -> None | <<string>>
    clientId,   \* VITE_GITHUB_CLIENT_ID of the build
    issued,     \* one entry per generateAuthUrl() so far: was its state stored
    stateUse,   \* since a state was last stored: "none" no validateState call,
                \* "validated" calls that could not reach the store,
                \* "removed" a call that removed the state
    call        \* the OAuthService call in progress or last completed

svcVars == << storage, clientId, issued, stateUse, call >>

VARIABLES
    query,      \* window.location.search of the callback page: code, state, error
    stub,       \* is oauthService.handleCallback replaced by a double
    view,       \* status, message, retryCount of the component and its timers
    effectDep,  \* retryCount of the render the effect last ran for, -1 before
    runs,       \* handler runs waiting at await oauthService.handleCallback
    redirected, \* window.location.href was assigned: the page is left
    log         \* history: what the page has done so far

pageVars == << query, stub, view, effectDep, runs, redirected, log >>

VARIABLES
    proxy       \* the serverless function api/oauth: its environment, the
                \* request it is serving, what it asked GitHub, its response

proxyVars == << proxy >>

\* the function before its first request, with the value of
\* process.env.GITHUB_CLIENT_SECRET
ProxyIdle(secret) ==
    [secret |-> secret, pc |-> "idle", served |-> 0,
     req |-> [method |-> "OPTIONS", body |-> None], res |-> None,
     readBody |-> FALSE, upstream |-> << >>, answer |-> None]

\* the function has served no request
ProxyNotCalled == proxy = ProxyIdle(Some("s3cr3t"))

VARIABLES
    modal       \* OAuthModal: its props, its state, what it rendered, the
                \* keydown listener on document, its timers, and the calls
                \* of onClose

modalVars == << modal >>

\* the return value of OAuthModal: is the dialog element rendered?
OAuthModalRender(isOpen, isClosing) ==
    IF ~isOpen /\ ~isClosing THEN FALSE ELSE TRUE

\* OAuthModal after its first render and its effect
OAuthModalMount(isOpen) ==
    [isOpen |-> isOpen, isClosing |-> FALSE,
     dialog |-> OAuthModalRender(isOpen, FALSE),
     listener |-> isOpen,
     overflow |-> IF isOpen THEN "hidden" ELSE "",
     timers |-> 0, onCloseCalls |-> 0, events |-> 0,
     last |-> [event |-> "none", arg |-> "", wasOpen |-> isOpen, added |-> 0]]

\* the modal as the page holds it before the button is used
ModalNotMounted == modal = OAuthModalMount(FALSE)

NoCall ==
    [op |-> "none", pc |-> "done", arg |-> "", code |-> "", mode |-> "ok",
     pre |-> EmptyStorage, gen |-> 0, wasUse |-> "none",
     valid |-> FALSE, ret |-> None, error |-> None, url |-> "", requests |-> << >>,
     userRequests |-> 0, answer |-> None, tokenMode |-> None, profile |-> "none",
     again |-> FALSE, href |-> None,
     after |-> [op |-> "none", arg |-> "", mode |-> "ok", had |-> None]]

\* arguments the client passes
ManualTokens == {"", "gho_old"}
ManualStates == {"", "m1"}
Codes == {"abc"}
IssuedStates == { generateState(i) : i \in 1..Len(issued) }
Candidates == ManualStates \cup IssuedStates

\* a call with the fields every call records
NewCall(op, arg, mode) ==
    [NoCall EXCEPT !.op = op, !.arg = arg, !.mode = mode, !.pre = storage,
                   !.gen = Len(issued), !.wasUse = stateUse]

\* the history of the state key after a write and after a validateState call
AfterStore(use, mode) == IF CanWrite(mode) THEN "none" ELSE use
AfterValidate(use, mode) ==
    IF CanRead(mode) THEN "removed" ELSE IF use = "removed" THEN "removed" ELSE "validated"

InitService ==
    /\ storage = EmptyStorage
    /\ clientId \in ClientIds
    /\ issued = << >>
    /\ stateUse = "none"
    /\ call = NoCall

(***************************************************************************)
(* The calls of the sequential client.                                      *)
(***************************************************************************)
StoreToken(token, mode) ==
    /\ call.pc = "done"
    /\ LET r == storeToken(storage, mode, token)
       IN  /\ storage' = r.storage
           /\ call' = [NewCall("storeToken", token, mode) EXCEPT
                          !.error = IF IsSome(r.threw) THEN Some(Error(Val(r.threw)))
                                    ELSE None]
    /\ UNCHANGED << clientId, issued, stateUse >>
    /\ UNCHANGED pageVars
    /\ UNCHANGED << proxyVars, modalVars >>

RevokeToken(mode) ==
    /\ call.pc = "done"
    /\ LET r == revokeToken(storage, mode)
       IN  /\ storage' = r.storage
           /\ call' = [NewCall("revokeToken", "", mode) EXCEPT
                          !.again = (call.op = "revokeToken"),
                          !.error = IF IsSome(r.threw) THEN Some(Error(Val(r.threw)))
                                    ELSE None]
    /\ UNCHANGED << clientId, issued, stateUse >>
    /\ UNCHANGED pageVars
    /\ UNCHANGED << proxyVars, modalVars >>

StoreState(state, mode) ==
    /\ call.pc = "done"
    /\ storage' = storeState(storage, mode, state)
    /\ stateUse' = AfterStore(stateUse, mode)
    /\ call' = NewCall("storeState", state, mode)
    /\ UNCHANGED << clientId, issued >>
    /\ UNCHANGED pageVars
    /\ UNCHANGED << proxyVars, modalVars >>

ValidateState(state, mode) ==
    /\ call.pc = "done"
    /\ LET v == validateState(storage, mode, state)
       IN  /\ storage' = v.storage
           /\ call' = [NewCall("validateState", state, mode) EXCEPT
                          !.valid = v.result, !.ret = Some(v.result)]
    /\ stateUse' = AfterValidate(stateUse, mode)
    /\ UNCHANGED << clientId, issued >>
    /\ UNCHANGED pageVars
    /\ UNCHANGED << proxyVars, modalVars >>

GenerateAuthUrl(mode) ==
    /\ call.pc = "done"
    /\ Len(issued) < MaxStates
    /\ LET g == generateAuthUrl(storage, mode, clientId, Len(issued) + 1)
       IN  /\ storage' = g.storage
           /\ call' = [NewCall("generateAuthUrl", generateState(Len(issued) + 1), mode)
                          EXCEPT !.url = g.url]
    /\ issued' = Append(issued, CanWrite(mode))
    /\ stateUse' = AfterStore(stateUse, mode)
    /\ UNCHANGED clientId
    /\ UNCHANGED pageVars
    /\ UNCHANGED << proxyVars, modalVars >>

HandleCallback(code, state, mode) ==
    /\ call.pc = "done"
    /\ LET h == handleCallbackStart(storage, mode, code, state, clientId)
       IN  /\ storage' = h.storage
           /\ call' = [NewCall("handleCallback", state, mode) EXCEPT
                          !.code = code, !.pc = h.pc, !.error = h.error,
                          !.valid = (h.pc = "exchange"), !.requests = h.requests]
    /\ stateUse' = AfterValidate(stateUse, mode)
    /\ UNCHANGED << clientId, issued >>
    /\ UNCHANGED pageVars
    /\ UNCHANGED << proxyVars, modalVars >>

\* the proxy's answer arrives: the rest of exchangeCodeForToken, then storeToken
\* and the request of fetchAndStoreUser
ProxyAnswer(resp, mode) ==
    /\ call.op = "handleCallback" /\ call.pc = "exchange"
    /\ LET h == handleCallbackToken(storage, mode, resp)
       IN  /\ storage' = h.storage
           /\ call' = [call EXCEPT !.pc = h.pc, !.error = h.error, !.ret = h.token,
                          !.answer = Some(resp), !.tokenMode = Some(mode),
                          !.userRequests = IF h.pc = "user" THEN 1 ELSE 0]
    /\ UNCHANGED << clientId, issued, stateUse >>
    /\ UNCHANGED pageVars
    /\ UNCHANGED << proxyVars, modalVars >>

\* the profile's answer arrives: the rest of fetchAndStoreUser, then the return
UserAnswer(resp, mode) ==
    /\ call.op = "handleCallback" /\ call.pc = "user"
    /\ LET h == handleCallbackUser(storage, mode, resp, call.ret)
       IN  /\ storage' = h.storage
           /\ call' = [call EXCEPT !.pc = h.pc, !.ret = h.ret,
                                   !.profile = ProfileOutcome(resp)]
    /\ UNCHANGED << clientId, issued, stateUse >>
    /\ UNCHANGED pageVars
    /\ UNCHANGED << proxyVars, modalVars >>

NextService ==
    \/ \E t \in ManualTokens, m \in StorageModes : StoreToken(t, m)
    \/ \E m \in StorageModes : RevokeToken(m)
    \/ \E s \in ManualStates, m \in StorageModes : StoreState(s, m)
    \/ \E s \in Candidates, m \in StorageModes : ValidateState(s, m)
    \/ \E m \in StorageModes : GenerateAuthUrl(m)
    \/ \E c \in Codes, s \in Candidates, m \in StorageModes : HandleCallback(c, s, m)
    \/ \E r \in ProxyAnswers, m \in StorageModes : ProxyAnswer(r, m)
    \/ \E r \in UserAnswers, m \in StorageModes : UserAnswer(r, m)

(***************************************************************************)
(* The callback page.                                                       *)
(***************************************************************************)
\* what GitHub (or anybody else) puts in the query string of the callback
Queries ==
    [code : {None, Some(""), Some("abc")},
     state : {None, Some(""), Some(generateState(1))},
     error : {None, Some("access_denied"), Some("server_error")}]

NoQuery == [code |-> None, state |-> None, error |-> None]

\* outcomes of the double that replaces oauthService.handleCallback; the
\* promise it returns is settled when it returns
NetworkFailure == Error("network error")
StubOutcomes ==
    { [kind |-> "resolves", error |-> Error("")] } \cup
    { [kind |-> "rejects", error |-> e] :
        e \in {NetworkFailure, [name |-> "NetworkError", message |-> "Connection lost"],
               Error("Request timeout"), InvalidStateError, Error("")} }

InitLog ==
    [invocations |-> 0,         \* calls of the handler
     svcCalls |-> 0,            \* calls of oauthService.handleCallback
     proxyRequests |-> 0,       \* POSTs to the token-exchange proxy
     onlyNetworkFailures |-> TRUE,  \* every settled call rejected with NetworkFailure
     caught |-> None]           \* what the catch block last ran with and did

\* the page as long as the component is not mounted
PageNotLoaded ==
    /\ query = NoQuery
    /\ stub = FALSE
    /\ view = InitialView
    /\ effectDep = -1
    /\ runs = << >>
    /\ redirected = FALSE
    /\ log = InitLog

\* how many timers of a kind a step of the handler added
Scheduled(before, after, kind) ==
    Cardinality({ i \in 1..Len(after) : after[i].kind = kind })
    - Cardinality({ i \in 1..Len(before) : before[i].kind = kind })

\* the catch block ran for the handler of render rc: the view after it and
\* the record of what it did
Caught(l, cause, rc, error, v, w) ==
    [l EXCEPT !.caught = Some(
        [cause |-> cause, error |-> error, rc |-> rc,
         retried |-> \/ w.retryCount # v.retryCount
                     \/ Scheduled(v.timers, w.timers, "handler") > 0,
         failed |-> /\ w.status = "error"
                    /\ Scheduled(v.timers, w.timers, "redirect") > 0])]

\* handleCallback() of the render whose retryCount was rc, up to its await
\* (or to its end when it returns or catches before any answer is needed)
Invoke(v, rc, mode) ==
    LET way == handleCallbackParams(query)
        l == [log EXCEPT !.invocations = @ + 1]
    IN  CASE way = "denied" ->
               [view |-> handleCallbackDenied(v), storage |-> storage,
                runs |-> runs, log |-> l]
          [] way = "missing" ->
               [view |-> handleCallbackMissing(v), storage |-> storage,
                runs |-> runs, log |-> l]
          [] way = "exchange" /\ stub ->
               [view |-> v, storage |-> storage,
                runs |-> Append(runs, [rc |-> rc, pc |-> "stub", age |-> 0,
                                       token |-> None]),
                log |-> [l EXCEPT !.svcCalls = @ + 1]]
          [] OTHER ->
               LET h == handleCallbackStart(storage, mode, Val(query.code),
                                            Val(query.state), clientId)
                   m == [l EXCEPT !.svcCalls = @ + 1,
                                  !.proxyRequests = @ + Len(h.requests)]
               IN  IF h.pc = "exchange"
                   THEN [view |-> v, storage |-> h.storage,
                         runs |-> Append(runs, [rc |-> rc, pc |-> "exchange",
                                                age |-> 0, token |-> None]),
                         log |-> m]
                   ELSE LET w == handleCallbackCatch(v, rc, Val(h.error))
                        IN  [view |-> w, storage |-> h.storage, runs |-> runs,
                             log |-> Caught(m, "validateState", rc, Val(h.error), v, w)]

Remove(seq, i) == SubSeq(seq, 1, i - 1) \o SubSeq(seq, i + 1, Len(seq))

\* storage failures are part of the composition only
PageModes == IF stub THEN {"ok"} ELSE StorageModes

\* the continuation of an await on a settled promise is a microtask: it runs
\* before the event loop takes its next task
MicrotaskPending == \E i \in 1..Len(runs) : runs[i].pc = "stub"

\* useEffect(..., [retryCount]): the effect runs after the first render and
\* after every render in which retryCount differs from the last run
Effect(mode) ==
    /\ ~redirected
    /\ ~MicrotaskPending
    /\ effectDep # view.retryCount
    /\ effectDep' = view.retryCount
    /\ LET r == Invoke(view, view.retryCount, mode)
       IN  /\ view' = r.view
           /\ storage' = r.storage
           /\ runs' = r.runs
           /\ log' = r.log
    /\ UNCHANGED << clientId, issued, stateUse, call, query, stub, redirected >>
    /\ UNCHANGED << proxyVars, modalVars >>

\* the timer the event loop runs next is the head of the queue
TimerDue == Len(view.timers) > 0 /\ Head(view.timers).left <= 0

TimerFires(mode) ==
    /\ ~redirected
    /\ ~MicrotaskPending
    /\ TimerDue
    /\ LET t == Head(view.timers)
           v == [view EXCEPT !.timers = Tail(@)]
       IN  IF t.kind = "redirect"
           THEN /\ redirected' = TRUE
                /\ view' = v
                /\ UNCHANGED << storage, runs, log >>
           ELSE LET r == Invoke(v, t.rc, mode)
                IN  /\ view' = r.view
                    /\ storage' = r.storage
                    /\ runs' = r.runs
                    /\ log' = r.log
                    /\ UNCHANGED redirected
    /\ UNCHANGED << clientId, issued, stateUse, call, query, stub, effectDep >>
    /\ UNCHANGED << proxyVars, modalVars >>

\* the promise of the double settles
StubSettles(i, outcome) ==
    /\ ~redirected
    /\ i \in 1..Len(runs) /\ runs[i].pc = "stub"
    /\ runs' = Remove(runs, i)
    /\ LET l == [log EXCEPT !.onlyNetworkFailures =
                               @ /\ outcome.kind = "rejects"
                                 /\ outcome.error = NetworkFailure]
       IN  IF outcome.kind = "resolves"
           THEN /\ view' = handleCallbackSuccess(view)
                /\ log' = l
           ELSE LET w == handleCallbackCatch(view, runs[i].rc, outcome.error)
                IN  /\ view' = w
                    /\ log' = Caught(l, "stub", runs[i].rc, outcome.error, view, w)
    /\ UNCHANGED << svcVars, query, stub, effectDep, redirected >>
    /\ UNCHANGED << proxyVars, modalVars >>

\* the proxy's answer arrives at a run of the real handleCallback
FlowProxyAnswer(i, resp, mode) ==
    /\ ~redirected
    /\ i \in 1..Len(runs) /\ runs[i].pc = "exchange"
    /\ LET h == handleCallbackToken(storage, mode, resp)
           l == [log EXCEPT !.onlyNetworkFailures = FALSE]
       IN  /\ storage' = h.storage
           /\ IF h.pc = "user"
              THEN /\ runs' = [runs EXCEPT ![i] = [@ EXCEPT !.pc = "user", !.age = 0,
                                                            !.token = h.token]]
                   /\ UNCHANGED << view, log >>
              ELSE LET w == handleCallbackCatch(view, runs[i].rc, Val(h.error))
                       cause == IF resp.kind = "rejects" THEN "fetch"
                                ELSE IF IsSome(exchangeCodeForToken(resp).error)
                                THEN "response" ELSE "storeToken"
                   IN  /\ runs' = Remove(runs, i)
                       /\ view' = w
                       /\ log' = Caught(l, cause, runs[i].rc, Val(h.error), view, w)
    /\ UNCHANGED << clientId, issued, stateUse, call, query, stub, effectDep, redirected >>
    /\ UNCHANGED << proxyVars, modalVars >>

\* the profile's answer arrives: handleCallback resolves
FlowUserAnswer(i, resp, mode) ==
    /\ ~redirected
    /\ i \in 1..Len(runs) /\ runs[i].pc = "user"
    /\ storage' = handleCallbackUser(storage, mode, resp, runs[i].token).storage
    /\ runs' = Remove(runs, i)
    /\ view' = handleCallbackSuccess(view)
    /\ log' = [log EXCEPT !.onlyNetworkFailures = FALSE]
    /\ UNCHANGED << clientId, issued, stateUse, call, query, stub, effectDep, redirected >>
    /\ UNCHANGED << proxyVars, modalVars >>

\* TickMs pass: nothing is left to do at the present instant
Tick ==
    /\ ~redirected
    /\ ~MicrotaskPending
    /\ effectDep = view.retryCount
    /\ ~TimerDue
    /\ \A i \in 1..Len(runs) : runs[i].age < MaxLatency
    /\ view' = [view EXCEPT !.timers =
                   [i \in 1..Len(@) |-> [@[i] EXCEPT !.left = @ - TickMs]]]
    /\ runs' = [i \in 1..Len(runs) |-> [runs[i] EXCEPT !.age = @ + 1]]
    /\ UNCHANGED << svcVars, query, stub, effectDep, redirected, log >>
    /\ UNCHANGED << proxyVars, modalVars >>

InitCallback ==
    /\ storage = EmptyStorage
    /\ clientId = ""
    /\ issued = << >>
    /\ stateUse = "none"
    /\ call = NoCall
    /\ query \in Queries
    /\ stub = TRUE
    /\ view = InitialView
    /\ effectDep = -1
    /\ runs = << >>
    /\ redirected = FALSE
    /\ log = InitLog
    /\ ProxyNotCalled
    /\ ModalNotMounted

\* the page is loaded over whatever the origin's store holds
StoredStates == {None, Some(generateState(1)), Some(generateState(2))}
StoredTokens == {None, Some("gho_old")}

InitFlow ==
    /\ storage \in { [EmptyStorage EXCEPT ![STORAGE_KEYS.State] = s,
                                          ![STORAGE_KEYS.Token] = t] :
                        s \in StoredStates, t \in StoredTokens }
    /\ clientId \in ClientIds
    /\ issued = << >>
    /\ stateUse = "none"
    /\ call = NoCall
    /\ query \in Queries
    /\ stub = FALSE
    /\ view = InitialView
    /\ effectDep = -1
    /\ runs = << >>
    /\ redirected = FALSE
    /\ log = InitLog
    /\ ProxyNotCalled
    /\ ModalNotMounted

NextCallback ==
    \/ \E m \in PageModes : Effect(m)
    \/ \E m \in PageModes : TimerFires(m)
    \/ \E i \in 1..Len(runs), o \in StubOutcomes : StubSettles(i, o)
    \/ Tick

NextFlow ==
    \/ \E m \in PageModes : Effect(m)
    \/ \E m \in PageModes : TimerFires(m)
    \/ \E i \in 1..Len(runs), r \in ProxyAnswers, m \in PageModes : FlowProxyAnswer(i, r, m)
    \/ \E i \in 1..Len(runs), r \in UserAnswers, m \in PageModes : FlowUserAnswer(i, r, m)
    \/ Tick

vars == << svcVars, pageVars, proxyVars, modalVars >>

Init == InitService /\ PageNotLoaded /\ ProxyNotCalled /\ ModalNotMounted
Next == NextService
Spec == Init /\ [][Next]_vars

SpecCallback == InitCallback /\ [][NextCallback]_vars
SpecFlow == InitFlow /\ [][NextFlow]_vars

\* the event loop keeps going: a pending effect runs, a due timer fires, a
\* request in flight settles, time passes
SpecCallbackFair == SpecCallback /\ WF_vars(NextCallback)

(***************************************************************************)
(* The proxy serving requests, one invocation of the function at a time.    *)
(***************************************************************************)
\* process.env.GITHUB_CLIENT_SECRET: unset, empty, set
Secrets == {None, Some(""), Some("s3cr3t")}

Methods == {"OPTIONS", "GET", "POST", "DELETE"}

Bodies ==
    {None} \cup
    { Some([code |-> c, client_id |-> i, redirect_uri |-> r]) :
        c \in {None, Some(""), Some("abc")},
        i \in {None, Some("Iv1.c0ffee")},
        r \in {None, Some("https://app.test/oauth/callback")} }

Requests == [method : Methods, body : Bodies]

\* a request arrives: the handler runs to its response or to its fetch
ProxyReceive(req) ==
    /\ proxy.pc = "idle"
    /\ LET h == handlerStart(req, proxy.secret)
       IN  proxy' = [proxy EXCEPT !.pc = h.pc, !.served = 1, !.req = req,
                                  !.res = h.res, !.readBody = h.readBody,
                                  !.upstream = h.upstream, !.answer = None]
    /\ UNCHANGED << svcVars, pageVars, modalVars >>

\* GitHub answers (or the fetch rejects): the handler runs to its response
ProxyUpstreamAnswer(ans) ==
    /\ proxy.pc = "upstream"
    /\ proxy' = [proxy EXCEPT !.pc = "idle", !.res = Some(handlerUpstream(ans)),
                              !.answer = Some(ans)]
    /\ UNCHANGED << svcVars, pageVars, modalVars >>

InitProxy ==
    /\ InitService
    /\ PageNotLoaded
    /\ proxy \in { ProxyIdle(secret) : secret \in Secrets }
    /\ ModalNotMounted

NextProxy ==
    \/ \E req \in Requests : ProxyReceive(req)
    \/ \E ans \in UpstreamAnswers : ProxyUpstreamAnswer(ans)

SpecProxy == InitProxy /\ [][NextProxy]_vars

(***************************************************************************)
(* OAuthModal under re-renders by its parent, key presses, clicks and its   *)
(* close timers.                                                            *)
(***************************************************************************)
MaxEvents == 3

KeyboardKeys == {"Escape", "Enter"}

\* where a click lands: the dialog element, the overlay div in it, or the
\* children
ClickTargets == {"dialog", "overlay", "content"}

\* a variant whose cleanup leaves the listener on document
keyListenerEffect_keep(m, isOpen, depsChanged) ==
    IF ~depsChanged THEN [m EXCEPT !.isOpen = isOpen]
    ELSE IF isOpen
    THEN [m EXCEPT !.isOpen = TRUE, !.listener = TRUE, !.overflow = "hidden",
                   !.isClosing = FALSE]
    ELSE [m EXCEPT !.isOpen = FALSE, !.overflow = "unset"]

\* a variant that starts the fade-out when the parent closes the modal
keyListenerEffect_fade(m, isOpen, depsChanged) ==
    IF ~depsChanged THEN [m EXCEPT !.isOpen = isOpen]
    ELSE IF isOpen
    THEN [m EXCEPT !.isOpen = TRUE, !.listener = TRUE, !.overflow = "hidden",
                   !.isClosing = FALSE]
    ELSE [m EXCEPT !.isOpen = FALSE, !.listener = FALSE, !.overflow = "unset",
                   !.isClosing = TRUE]

\* the effect on [isOpen, handleEscKey] after a render with isOpen: the
\* cleanup of the previous run, then the body
keyListenerEffect(m, isOpen, depsChanged) ==
    IF ~depsChanged THEN [m EXCEPT !.isOpen = isOpen]
    ELSE IF isOpen
    THEN [m EXCEPT !.isOpen = TRUE, !.listener = TRUE, !.overflow = "hidden",
                   !.isClosing = FALSE]
    ELSE [m EXCEPT !.isOpen = FALSE, !.listener = FALSE, !.overflow = "unset"]

\* the commit: what is rendered from the props and the state
Commit(m) == [m EXCEPT !.dialog = OAuthModalRender(m.isOpen, m.isClosing)]

\* setIsClosing(true) and a timer of 200 ms
handleClose(m) == [m EXCEPT !.isClosing = TRUE, !.timers = @ + 1]

handleEscKey(m, key) == IF key = "Escape" THEN handleClose(m) ELSE m

\* event.target === event.currentTarget only for the dialog element
handleBackdropClick(m, target) == IF target = "dialog" THEN handleClose(m) ELSE m

Event(name, arg, before, after) ==
    [after EXCEPT !.events = @ + 1,
                  !.last = [event |-> name, arg |-> arg, wasOpen |-> before.isOpen,
                            added |-> after.timers - before.timers]]

\* the parent renders the modal again
Rerender(isOpen, newOnClose) ==
    /\ modal' = Commit(keyListenerEffect(modal, isOpen,
                                         isOpen # modal.isOpen \/ newOnClose))
    /\ UNCHANGED << svcVars, pageVars, proxyVars >>

\* a key goes down on document
KeyDown(key) ==
    /\ modal.events < MaxEvents
    /\ modal' = Event("keydown", key, modal,
                      Commit(IF modal.listener THEN handleEscKey(modal, key) ELSE modal))
    /\ UNCHANGED << svcVars, pageVars, proxyVars >>

\* a click lands in the dialog
Click(target) ==
    /\ modal.events < MaxEvents
    /\ modal.dialog
    /\ modal' = Event("click", target, modal,
                      Commit(handleBackdropClick(modal, target)))
    /\ UNCHANGED << svcVars, pageVars, proxyVars >>

\* a close timer fires: onClose(), where the parent closes the modal or
\* leaves it, and setIsClosing(false)
CloseTimerFires(parentCloses) ==
    /\ modal.timers > 0
    /\ LET called == [modal EXCEPT !.timers = @ - 1, !.onCloseCalls = @ + 1,
                                   !.isClosing = FALSE]
           isOpen == IF parentCloses THEN FALSE ELSE modal.isOpen
       IN  modal' = Commit(keyListenerEffect(called, isOpen, isOpen # modal.isOpen))
    /\ UNCHANGED << svcVars, pageVars, proxyVars >>

InitModal ==
    /\ InitService
    /\ PageNotLoaded
    /\ ProxyNotCalled
    /\ modal \in { OAuthModalMount(isOpen) : isOpen \in BOOLEAN }

NextModal ==
    \/ \E isOpen \in BOOLEAN, newOnClose \in BOOLEAN : Rerender(isOpen, newOnClose)
    \/ \E key \in KeyboardKeys : KeyDown(key)
    \/ \E target \in ClickTargets : Click(target)
    \/ \E parentCloses \in BOOLEAN : CloseTimerFires(parentCloses)

SpecModal == InitModal /\ [][NextModal]_vars

\* every close timer fires
SpecModalFair == SpecModal /\ WF_vars(\E parentCloses \in BOOLEAN : CloseTimerFires(parentCloses))

(***************************************************************************)
(* The credential store over whatever the origin's localStorage holds:      *)
(* values written by OAuthService before, by another version of the         *)
(* application, or by hand.                                                  *)
(***************************************************************************)
StoreTokenInputs == ManualTokens \cup {"gho_new"}

StoreContents ==
    { [k \in Keys |-> IF k = STORAGE_KEYS.Token THEN t
                      ELSE IF k = STORAGE_KEYS.User THEN u ELSE x] :
        t \in {None} \cup { Some(v) : v \in StoreTokenInputs },
        u \in {None, Some("null")} \cup { Some(c) : c \in CorruptUsers }
               \cup { Some(JSONStringify(v)) : v \in Users },
        x \in {None, Some(generateState(1))} }

GetToken(mode) ==
    /\ call.pc = "done"
    /\ call' = [NewCall("getToken", "", mode) EXCEPT
                    !.ret = getToken(storage, mode),
                    !.after = [op |-> call.op, arg |-> call.arg, mode |-> call.mode,
                               had |-> call.pre[STORAGE_KEYS.Token]]]
    /\ UNCHANGED << storage, clientId, issued, stateUse >>
    /\ UNCHANGED pageVars
    /\ UNCHANGED << proxyVars, modalVars >>

IsAuthenticated(mode) ==
    /\ call.pc = "done"
    /\ call' = [NewCall("isAuthenticated", "", mode) EXCEPT
                    !.ret = Some(isAuthenticated(storage, mode))]
    /\ UNCHANGED << storage, clientId, issued, stateUse >>
    /\ UNCHANGED pageVars
    /\ UNCHANGED << proxyVars, modalVars >>

StoreUser(user, mode) ==
    /\ call.pc = "done"
    /\ storage' = storeUser(storage, mode, user)
    /\ call' = NewCall("storeUser", user.login, mode)
    /\ UNCHANGED << clientId, issued, stateUse >>
    /\ UNCHANGED pageVars
    /\ UNCHANGED << proxyVars, modalVars >>

GetUser(mode) ==
    /\ call.pc = "done"
    /\ LET r == getUser(storage, mode)
       IN  call' = [NewCall("getUser", "", mode) EXCEPT
                       !.ret = r.user,
                       !.error = IF IsSome(r.threw) THEN Some(Error(Val(r.threw)))
                                 ELSE None]
    /\ UNCHANGED << storage, clientId, issued, stateUse >>
    /\ UNCHANGED pageVars
    /\ UNCHANGED << proxyVars, modalVars >>

\* connect: the page is left for the authorization URL; the client goes on
\* when the user is back on the application
InitiateOAuth(mode) ==
    /\ call.pc = "done"
    /\ Len(issued) < MaxStates
    /\ LET r == initiateOAuth(storage, mode, clientId, Len(issued) + 1)
       IN  /\ storage' = r.storage
           /\ issued' = IF r.generated = 1 THEN Append(issued, CanWrite(mode))
                         ELSE issued
           /\ stateUse' = IF r.generated = 1 THEN AfterStore(stateUse, mode)
                           ELSE stateUse
           /\ call' = [NewCall("initiateOAuth", "", mode) EXCEPT
                          !.href = r.href,
                          !.error = IF IsSome(r.threw) THEN Some(Error(Val(r.threw)))
                                    ELSE None]
    /\ UNCHANGED clientId
    /\ UNCHANGED pageVars
    /\ UNCHANGED << proxyVars, modalVars >>

InitStore ==
    /\ storage \in StoreContents
    /\ clientId \in ClientIds
    /\ issued = << >>
    /\ stateUse = "none"
    /\ call = NoCall
    /\ PageNotLoaded
    /\ ProxyNotCalled
    /\ ModalNotMounted

NextStore ==
    \/ \E t \in StoreTokenInputs, m \in StorageModes : StoreToken(t, m)
    \/ \E m \in StorageModes : GetToken(m)
    \/ \E m \in StorageModes : RevokeToken(m)
    \/ \E m \in StorageModes : IsAuthenticated(m)
    \/ \E u \in Users, m \in StorageModes : StoreUser(u, m)
    \/ \E m \in StorageModes : GetUser(m)
    \/ \E m \in StorageModes : InitiateOAuth(m)

SpecStore == InitStore /\ [][NextStore]_vars

(***************************************************************************)
(*                              CLAIMS                                     *)
(***************************************************************************)
StateKey == STORAGE_KEYS.State
TokenKey == STORAGE_KEYS.Token
UserKey == STORAGE_KEYS.User

\* the answer is a 2xx response carrying a non-empty access_token
TokenAnswer(a) ==
    /\ IsSome(a) /\ Val(a).kind = "response" /\ Val(a).ok /\ Val(a).parses
    /\ IsSome(Val(a).access_token) /\ Val(a).access_token # Some("")

(* C1 as stated: for any stored state s and candidate c, validateState(c)   *)
(* returns true exactly when c equals s; in every case the stored state is  *)
(* deleted by the call, so every following validateState returns false      *)
(* until a state is stored again.                                           *)
C1_AsClaimed ==
    call.op = "validateState" =>
        /\ call.ret = Some(call.pre[StateKey] = Some(call.arg))
        /\ storage[StateKey] = None
        /\ (call.wasUse # "none" => call.ret = Some(FALSE))

(* C1 amended: while localStorage can be read, validateState(c) returns     *)
(* true exactly when c equals the stored state and deletes the stored state *)
(* in every case (match, mismatch, nothing stored, empty candidate); when   *)
(* the storage access throws it returns false and leaves the store as it    *)
(* was.  After a call that deleted the state every validateState returns    *)
(* false until a state is stored again.                                     *)
C1_ValidateState ==
    call.op = "validateState" =>
        /\ CanRead(call.mode) =>
              /\ call.ret = Some(call.pre[StateKey] = Some(call.arg))
              /\ storage[StateKey] = None
        /\ ~CanRead(call.mode) => (call.ret = Some(FALSE) /\ storage = call.pre)
        /\ call.wasUse = "removed" => call.ret = Some(FALSE)
        /\ \A k \in Keys \ {StateKey} : storage[k] = call.pre[k]

\* a mismatching candidate consumed the stored state
C1_Witness ==
    /\ call.op = "validateState"
    /\ IsSome(call.pre[StateKey]) /\ call.pre[StateKey] # Some(call.arg)
    /\ call.ret = Some(FALSE)
    /\ storage[StateKey] = None

(* C2 as stated: handleCallback(code, state) with a state different from    *)
(* the stored one rejects with the invalid-state error, sends no request to *)
(* the proxy, writes no token or user, and leaves the stored CSRF state     *)
(* deleted; starting unauthenticated, isAuthenticated() is still false.     *)
C2_AsClaimed ==
    (call.op = "handleCallback" /\ call.pre[StateKey] # Some(call.arg)) =>
        /\ call.pc = "done" /\ call.error = Some(InvalidStateError) /\ call.ret = None
        /\ call.requests = << >> /\ call.userRequests = 0
        /\ storage[TokenKey] = call.pre[TokenKey]
        /\ storage[UserKey] = call.pre[UserKey]
        /\ storage[StateKey] = None
        /\ \A m \in StorageModes :
              ~isAuthenticated(call.pre, m) => ~isAuthenticated(storage, m)

(* C2 amended: as stated, except that the stored CSRF state is deleted only *)
(* when localStorage can be read; when the storage access throws, the call  *)
(* still rejects with the invalid-state error and the stored state stays.   *)
C2_InvalidState ==
    (call.op = "handleCallback" /\ call.pre[StateKey] # Some(call.arg)) =>
        /\ call.pc = "done" /\ call.error = Some(InvalidStateError) /\ call.ret = None
        /\ call.requests = << >> /\ call.userRequests = 0
        /\ storage[TokenKey] = call.pre[TokenKey]
        /\ storage[UserKey] = call.pre[UserKey]
        /\ storage[StateKey] = IF CanRead(call.mode) THEN None ELSE call.pre[StateKey]
        /\ \A m \in StorageModes :
              ~isAuthenticated(call.pre, m) => ~isAuthenticated(storage, m)

\* a callback with the wrong state was rejected and consumed the stored one
C2_Witness ==
    /\ call.op = "handleCallback"
    /\ IsSome(call.pre[StateKey]) /\ call.pre[StateKey] # Some(call.arg)
    /\ call.error = Some(InvalidStateError)
    /\ storage[StateKey] = None
    /\ ~isAuthenticated(storage, "ok")

ChecksState == call.op \in {"validateState", "handleCallback"}

(* C4 as stated: when a second generateAuthUrl() overwrites the pending     *)
(* state before the callback of the first attempt arrives, the callback     *)
(* carrying the first attempt's state always fails validation; only the     *)
(* state of the most recently built URL can validate.                       *)
C4_AsClaimed ==
    ChecksState =>
        \A i \in 1..call.gen :
            (call.arg = generateState(i) /\ call.valid) => i = call.gen

(* C4 amended: once a later generateAuthUrl() has stored its state, the     *)
(* callback carrying an earlier attempt's state always fails validation;    *)
(* of the generated states only that of the most recent URL whose state     *)
(* was stored can validate.  (A generateAuthUrl whose write of the state    *)
(* throws only logs it, and the older state stays pending.)                 *)
C4_LatestStoredOnly ==
    ChecksState =>
        \A i \in 1..call.gen :
            (call.arg = generateState(i) /\ call.valid) =>
                (issued[i] /\ \A j \in (i + 1)..call.gen : ~issued[j])

\* the second URL's state replaced the first, whose callback then failed
C4_Witness ==
    /\ call.op = "handleCallback" /\ call.gen = 2
    /\ call.arg = generateState(1) /\ issued[1] /\ issued[2]
    /\ call.pre[StateKey] = Some(generateState(2))
    /\ ~call.valid /\ call.error = Some(InvalidStateError)

\* the parameters generateAuthUrl must put in the query, in order
AuthUrlShape(url, cid, state) ==
    LET u == ParseUrl(url)
        cfg == GITHUB_OAUTH_CONFIG(cid)
    IN  /\ u.base = cfg.authorizationUrl
        /\ u.searchParams = << <<"client_id", cfg.clientId>>,
                               <<"redirect_uri", cfg.redirectUri>>,
                               <<"scope", "repo read:user">>,
                               <<"state", state>>,
                               <<"allow_signup", "true">> >>

(* C5 as stated: every generateAuthUrl() returns a URL on the authorization *)
(* endpoint with client_id, redirect_uri, scope (the configured scopes      *)
(* joined by one space, in order), state and allow_signup, and the state in *)
(* the URL is the value persisted under the state key when the call         *)
(* returns, so validateState of that value returns true.                    *)
C5_AsClaimed ==
    call.op = "generateAuthUrl" =>
        /\ AuthUrlShape(call.url, clientId, call.arg)
        /\ storage[StateKey] = SearchParamsGet(ParseUrl(call.url).searchParams, "state")
        /\ validateState(storage, "ok", call.arg).result

(* C5 amended: the URL is as stated in every case; the state in the URL is  *)
(* the value persisted under the state key, and validateState accepts it,   *)
(* when the write to localStorage succeeds; when setItem throws, the URL is *)
(* returned all the same and the store is left as it was.                   *)
C5_AuthUrl ==
    call.op = "generateAuthUrl" =>
        /\ AuthUrlShape(call.url, clientId, call.arg)
        /\ call.arg = generateState(call.gen + 1)
        /\ IF CanWrite(call.mode)
           THEN /\ storage[StateKey] =
                      SearchParamsGet(ParseUrl(call.url).searchParams, "state")
                /\ validateState(storage, "ok", call.arg).result
                /\ \A k \in Keys \ {StateKey} : storage[k] = call.pre[k]
           ELSE storage = call.pre

\* a URL was built and its state replaced the one pending before
C5_Witness ==
    /\ call.op = "generateAuthUrl" /\ call.mode = "ok"
    /\ call.pre[StateKey] = Some(generateState(1))
    /\ storage[StateKey] = Some(generateState(2))
    /\ SearchParamsGet(ParseUrl(call.url).searchParams, "state") = Some(generateState(2))

(***************************************************************************)
(* The callback page: retries, redirects, classification of errors.         *)
(***************************************************************************)
RedirectPending ==
    \E i \in 1..Len(view.timers) : view.timers[i].kind = "redirect"

HandlerTimerPending ==
    \E i \in 1..Len(view.timers) : view.timers[i].kind = "handler"

\* the query string carries a code and a state and is no denial
AsksForExchange ==
    /\ query.error # Some("access_denied")
    /\ query.code \notin {None, Some("")}
    /\ query.state \notin {None, Some("")}

\* C6 (as claimed): when every call of the token exchange rejects with a
\* network-classified error, the handler is invoked 4 times in total (1 + 3
\* retries), no more, and the page is Failed once the 4th has failed.
C6_AsClaimed ==
    AsksForExchange /\ log.onlyNetworkFailures =>
        /\ log.invocations <= MAX_RETRIES + 1
        /\ view.status = "error" => log.invocations = MAX_RETRIES + 1

\* C6 (what the page does): the page is Failed after 4 invocations made
\* without any delay, and a backoff timer of an earlier render then invokes
\* the handler a 5th time and raises retryCount beyond MAX_RETRIES.
C6_Witness ==
    /\ AsksForExchange /\ log.onlyNetworkFailures
    /\ view.status = "error"
    /\ log.invocations = MAX_RETRIES + 2
    /\ view.retryCount > MAX_RETRIES
    /\ ~redirected

\* C7: whatever the query string and whatever the outcomes of the calls of
\* oauthService.handleCallback, the page eventually assigns
\* window.location.href: no behaviour stays on the callback page forever.
C7_EventuallyRedirects == <>redirected

\* the redirect happened after the retries were used up
C7_Witness ==
    /\ redirected
    /\ view.status = "error"
    /\ view.retryCount >= MAX_RETRIES
    /\ IsSome(log.caught) /\ Val(log.caught).rc >= MAX_RETRIES

\* C8: with error=access_denied, or with code or state absent (or empty), the
\* first run of the handler sets status error and schedules the redirect;
\* oauthService.handleCallback is never called, the proxy never requested,
\* retryCount stays 0 and no timer re-invokes the handler.
C8_DeniedOrMissing ==
    (/\ effectDep >= 0
     /\ \/ query.error = Some("access_denied")
        \/ query.code \in {None, Some("")}
        \/ query.state \in {None, Some("")}) =>
        /\ view.status = "error"
        /\ redirected \/ RedirectPending
        /\ log.invocations = 1
        /\ log.svcCalls = 0
        /\ log.proxyRequests = 0
        /\ runs = << >>
        /\ view.retryCount = 0
        /\ ~HandlerTimerPending
        /\ log.caught = None

\* a denial that carries a code and the stored state all the same
C8_Witness ==
    /\ query.error = Some("access_denied")
    /\ query.code = Some("abc")
    /\ query.state = storage[StateKey] /\ IsSome(query.state)
    /\ view.status = "error"
    /\ redirected

\* C9 (as claimed): when the fetch to the proxy rejects and fewer than 3
\* retries are used, the catch block of the page takes the retry branch.
C9_AsClaimed ==
    (/\ IsSome(log.caught)
     /\ Val(log.caught).cause = "fetch"
     /\ Val(log.caught).rc < MAX_RETRIES) => Val(log.caught).retried

\* C9 (what the composition does): the rejection of fetch reaches the page
\* as "OAuth proxy is not configured...", which is not retryable: the page
\* is Failed at the first network failure.
C9_Witness ==
    /\ IsSome(log.caught)
    /\ Val(log.caught).cause = "fetch"
    /\ Val(log.caught).rc = 0
    /\ Val(log.caught).error = ProxyNotConfiguredError
    /\ ~Val(log.caught).retried /\ Val(log.caught).failed
    /\ view.retryCount = 0

\* C10: when oauthService.handleCallback rejects with the invalid-state error,
\* the catch block never takes the retry branch, whatever retryCount its
\* render had: it sets status error and schedules the redirect.
C10_InvalidStateFatal ==
    (IsSome(log.caught) /\ Val(log.caught).error = InvalidStateError) =>
        /\ ~Val(log.caught).retried
        /\ Val(log.caught).failed

\* an invalid-state rejection after two retries, one retry still left
C10_Witness ==
    /\ IsSome(log.caught)
    /\ Val(log.caught).error = InvalidStateError
    /\ Val(log.caught).rc = MAX_RETRIES - 1
    /\ view.retryCount = MAX_RETRIES - 1
    /\ view.status = "error"
    /\ RedirectPending
(***************************************************************************)
(* OAuthService: the profile, the credential store.                         *)
(***************************************************************************)
\* C11: when the fetch of the profile rejects or is answered with a status
\* that is not 2xx (or a body that is not JSON) after the token was received
\* and stored, handleCallback resolves with the token: no error, the token
\* is the stored one, the user key is what it was before the call.
C11_ProfileFailureSwallowed ==
    (/\ call.op = "handleCallback" /\ call.pc = "done"
     /\ call.profile \in {"rejects", "status", "unparsable"}) =>
        /\ call.error = None
        /\ IsSome(call.ret)
        /\ call.ret = Val(call.answer).access_token
        /\ storage[TokenKey] = call.ret
        /\ storage[UserKey] = call.pre[UserKey]

\* the profile request was refused and the session is authenticated without
\* a user record
C11_Witness ==
    /\ call.op = "handleCallback" /\ call.pc = "done"
    /\ call.profile = "status"
    /\ call.ret = Some("gho_tok1")
    /\ isAuthenticated(storage, "ok")
    /\ storage[UserKey] = None
\* C12: getToken() called after a storeToken(t) whose write succeeded, t not
\* empty, returns exactly t when it can read the store, whatever token was
\* stored before (the last write wins).
C12_StoreThenGet ==
    (/\ call.op = "getToken" /\ CanRead(call.mode)
     /\ call.after.op = "storeToken" /\ call.after.mode = "ok"
     /\ call.after.arg # "") =>
        /\ call.ret = Some(call.after.arg)
        /\ call.error = None

\* getToken() after storeToken(t2) over a stored t1 returned t2
C12_Witness ==
    /\ call.op = "getToken" /\ call.mode = "ok"
    /\ call.after.op = "storeToken" /\ call.after.mode = "ok"
    /\ call.after.had = Some("gho_old")
    /\ call.after.arg = "gho_new"
    /\ call.ret = Some("gho_new")

\* every key of the store is absent
AllAbsent(st) == \A k \in Keys : st[k] = None

(* C13 as stated: from any storage contents revokeToken() leaves the token  *)
(* key, the user key and the state key absent, so getToken() is null and    *)
(* isAuthenticated() false; a second revokeToken() does not throw and       *)
(* yields the same.                                                         *)
C13_AsClaimed ==
    call.op = "revokeToken" =>
        /\ AllAbsent(storage)
        /\ getToken(storage, "ok") = None
        /\ ~isAuthenticated(storage, "ok")
        /\ call.error = None

(* C13 amended: when localStorage can be accessed, revokeToken() leaves the *)
(* three keys absent from any contents, so getToken() is null and           *)
(* isAuthenticated() false, the first time and every time after; when the   *)
(* removal throws, nothing is removed.  It never throws.                    *)
C13_Revoke ==
    call.op = "revokeToken" =>
        /\ call.error = None
        /\ IF CanRead(call.mode)
           THEN /\ AllAbsent(storage)
                /\ \A m \in StorageModes : getToken(storage, m) = None
                /\ \A m \in StorageModes : ~isAuthenticated(storage, m)
           ELSE storage = call.pre

\* a second revokeToken() in a row, on a store that is empty already
C13_Witness ==
    /\ call.op = "revokeToken" /\ call.again
    /\ CanRead(call.mode)
    /\ AllAbsent(call.pre) /\ AllAbsent(storage)
    /\ call.error = None

\* C14: initiateOAuth() with an empty client id throws the configuration
\* error; no state is generated, the store (the state key with it) is what
\* it was, window.location.href is not assigned.
C14_NotConfigured ==
    (call.op = "initiateOAuth" /\ clientId = "") =>
        /\ call.error = Some(Error(NotConfiguredMessage))
        /\ Len(issued) = call.gen
        /\ storage = call.pre
        /\ call.href = None

\* connect without a client id while a state of an earlier attempt is pending
C14_Witness ==
    /\ call.op = "initiateOAuth" /\ clientId = ""
    /\ call.mode = "ok"
    /\ IsSome(call.error)
    /\ storage[StateKey] = Some(generateState(1))

\* C15: revokeToken() never throws: when the removal from localStorage
\* throws, the call returns normally.
C15_RevokeNeverRaises ==
    (call.op = "revokeToken" /\ ~CanRead(call.mode)) => call.error = None

\* revokeToken() on a store that throws, a session being stored
C15_Witness ==
    /\ call.op = "revokeToken" /\ call.mode = "blocked"
    /\ IsSome(call.pre[TokenKey]) /\ IsSome(call.pre[UserKey])
    /\ call.error = None

\* C16: getToken() returns null without throwing when the read throws;
\* getUser() returns null without throwing when the read throws or the
\* stored text is no JSON; isAuthenticated() is then false.
C16_BrokenStoreReadsAbsent ==
    /\ (call.op = "getToken" /\ ~CanRead(call.mode)) =>
            call.ret = None /\ call.error = None
    /\ (/\ call.op = "getUser"
        /\ \/ ~CanRead(call.mode)
           \/ \E c \in CorruptUsers : storage[UserKey] = Some(c)) =>
            call.ret = None /\ call.error = None
    /\ (call.op = "isAuthenticated" /\ ~CanRead(call.mode)) =>
            call.ret = Some(FALSE) /\ call.error = None

\* getUser() over a record cut short, the store being readable
C16_Witness ==
    /\ call.op = "getUser" /\ call.mode = "ok"
    /\ storage[UserKey] = Some("{\"login\":\"octo")
    /\ call.ret = None /\ call.error = None

(***************************************************************************)
(* The token exchange proxy.                                                *)
(***************************************************************************)
\* the response of the request being served
ProxyRes == Val(proxy.res)

\* the request has been answered without a fetch of the token endpoint
AnsweredAtOnce == proxy.served = 1 /\ proxy.pc = "idle" /\ proxy.answer = None

\* C17: OPTIONS is answered 200 with an empty body, a method other than
\* POST and OPTIONS is answered 405, in both cases req.body is not read and
\* the token endpoint is not fetched; every response carries the three
\* CORS headers.
C17_MethodGating ==
    /\ (proxy.served = 1 /\ proxy.req.method = "OPTIONS") =>
            /\ IsSome(proxy.res) /\ ProxyRes.status = 200 /\ ProxyRes.body = None
            /\ ~proxy.readBody /\ proxy.upstream = << >>
    /\ (proxy.served = 1 /\ proxy.req.method \notin {"POST", "OPTIONS"}) =>
            /\ IsSome(proxy.res) /\ ProxyRes.status = 405
            /\ ~proxy.readBody /\ proxy.upstream = << >>
    /\ IsSome(proxy.res) =>
            ProxyRes.headers = { <<"Access-Control-Allow-Origin", "*">>,
                                 <<"Access-Control-Allow-Methods", "POST, OPTIONS">>,
                                 <<"Access-Control-Allow-Headers", "Content-Type">> }

\* a GET that carries all three parameters, the secret being set, is
\* answered 405
C17_Witness ==
    /\ AnsweredAtOnce /\ proxy.req.method = "GET"
    /\ proxy.secret = Some("s3cr3t")
    /\ proxy.req.body = Some([code |-> Some("abc"), client_id |-> Some("Iv1.c0ffee"),
                              redirect_uri |-> Some("https://app.test/oauth/callback")])
    /\ ProxyRes.status = 405 /\ ~proxy.readBody

\* the body of the request lacks code, client_id or redirect_uri
LacksParameter(body) ==
    \/ body = None
    \/ Missing(Val(body).code)
    \/ Missing(Val(body).client_id)
    \/ Missing(Val(body).redirect_uri)

\* C18: a POST whose body lacks code, client_id or redirect_uri is answered
\* 400 "Missing required parameters" and the token endpoint is not fetched,
\* whatever the secret.
C18_AsClaimed ==
    (proxy.served = 1 /\ proxy.req.method = "POST" /\ LacksParameter(proxy.req.body)) =>
        /\ IsSome(proxy.res) /\ ProxyRes.status = 400
        /\ ProxyRes.body = ErrorJson("Missing required parameters",
                                     "code, client_id, and redirect_uri are required")
        /\ proxy.upstream = << >>

\* a POST without a parsed body is answered from the catch block
C18_Witness ==
    /\ AnsweredAtOnce /\ proxy.req.method = "POST" /\ proxy.req.body = None
    /\ ProxyRes.status = 500
    /\ Val(ProxyRes.body).error = Some("Internal server error")
    /\ proxy.upstream = << >>

\* C19: a POST that carries code, client_id and redirect_uri while
\* GITHUB_CLIENT_SECRET is unset or empty is answered 500 "Server
\* configuration error" and the token endpoint is not fetched.
C19_SecretNotConfigured ==
    (/\ proxy.served = 1 /\ proxy.req.method = "POST"
     /\ ~LacksParameter(proxy.req.body)
     /\ Missing(proxy.secret)) =>
        /\ IsSome(proxy.res) /\ ProxyRes.status = 500
        /\ Val(ProxyRes.body).error = Some("Server configuration error")
        /\ proxy.upstream = << >> /\ proxy.pc = "idle"

\* a complete POST to a function whose secret is unset
C19_Witness ==
    /\ AnsweredAtOnce /\ proxy.req.method = "POST" /\ proxy.secret = None
    /\ ~LacksParameter(proxy.req.body)
    /\ ProxyRes.status = 500
    /\ Val(ProxyRes.body).error = Some("Server configuration error")

\* the token endpoint answered and did not grant a token
ExchangeFailed(ans) ==
    ans.kind = "response" /\ (~UpstreamOk(ans) \/ ~Missing(ans.error))

\* C20 as stated: when the exchange fails at the token endpoint the response
\* carries the status of the token endpoint and a body {error, message}; the
\* response is 200 only when the exchange produced an access token.
C20_AsClaimed ==
    IsSome(proxy.answer) =>
        /\ ExchangeFailed(Val(proxy.answer)) =>
                /\ ProxyRes.status = Val(proxy.answer).status
                /\ IsSome(Val(ProxyRes.body).error) /\ IsSome(Val(ProxyRes.body).message)
        /\ ProxyRes.status = 200 => IsSome(Val(proxy.answer).access_token)

\* C20: the response carries the status of the token endpoint when that
\* status is not 2xx; a 2xx answer with an error field is answered 400 with
\* that error; a fetch that rejects or a 2xx body that is no JSON is
\* answered 500; the response is 200 exactly when the token endpoint
\* answered 2xx with JSON without an error field, and then carries the
\* access_token of that answer, present or not.
C20_ExchangeOutcome ==
    IsSome(proxy.answer) =>
        LET ans == Val(proxy.answer)
        IN  /\ (ans.kind = "response" /\ ~UpstreamOk(ans)) =>
                    /\ ProxyRes.status = ans.status
                    /\ Val(ProxyRes.body).error = Some("Token exchange failed")
                    /\ IsSome(Val(ProxyRes.body).message)
            /\ (ans.kind = "response" /\ UpstreamOk(ans) /\ ans.parses /\ ~Missing(ans.error)) =>
                    /\ ProxyRes.status = 400
                    /\ Val(ProxyRes.body).error = ans.error
                    /\ IsSome(Val(ProxyRes.body).message)
            /\ (ans.kind = "rejects" \/ (UpstreamOk(ans) /\ ~ans.parses)) =>
                    /\ ProxyRes.status = 500
                    /\ Val(ProxyRes.body).error = Some("Internal server error")
            /\ ProxyRes.status = 200 <=>
                    (ans.kind = "response" /\ UpstreamOk(ans) /\ ans.parses /\ Missing(ans.error))
            /\ ProxyRes.status = 200 =>
                    Val(ProxyRes.body).access_token = ans.access_token

\* the token endpoint answers 503 and the response is 503
C20_Witness ==
    /\ IsSome(proxy.answer) /\ Val(proxy.answer).status = 503
    /\ ProxyRes.status = 503
    /\ Val(ProxyRes.body).error = Some("Token exchange failed")

\* the token endpoint answers 200 with an error field and the response is 400
C20_ProviderErrorWitness ==
    /\ IsSome(proxy.answer) /\ Val(proxy.answer).status = 200
    /\ Val(proxy.answer).error = Some("bad_verification_code")
    /\ ProxyRes.status = 400

(***************************************************************************)
(* OAuthModal.                                                              *)
(***************************************************************************)
\* C21: whatever isOpen values the parent has given, the dialog element is
\* rendered exactly when the current isOpen is true, as long as no close
\* timer started by Escape or a click is pending.
C21_RenderedWhenOpen ==
    modal.timers = 0 => (modal.dialog <=> modal.isOpen)

\* the parent has closed the modal it had mounted open: the dialog is gone
C21_Witness ==
    /\ modal.events = 0 /\ modal.timers = 0
    /\ ~modal.isOpen /\ ~modal.dialog /\ modal.overflow = "unset"

\* the parent closes the modal while it fades out: the dialog is still
\* rendered
C21_ClosingWitness ==
    modal.timers > 0 /\ ~modal.isOpen /\ modal.dialog

\* the event is one that closes an open modal
ClosingEvent(last) ==
    \/ last.event = "keydown" /\ last.arg = "Escape"
    \/ last.event = "click" /\ last.arg = "dialog"

C23_StepsInOrder ==
    call.op = "handleCallback" =>
        /\ Len(call.requests) <= 1
        /\ call.requests # << >> =>
                /\ CanRead(call.mode)
                /\ call.pre[StateKey] = Some(call.arg)
                /\ storage[StateKey] = None
        /\ call.userRequests > 0 =>
                /\ call.userRequests = 1
                /\ call.requests # << >> /\ IsSome(call.answer)
                /\ IsSome(call.ret) /\ storage[TokenKey] = call.ret
        /\ call.pc = "exchange" =>
                call.requests # << >> /\ call.answer = None /\ call.userRequests = 0
        /\ call.pc = "user" =>
                IsSome(call.answer) /\ call.userRequests = 1 /\ call.profile = "none"

\* the profile is being fetched: the state is consumed, the proxy has
\* answered, the token is stored
C23_Witness ==
    /\ call.op = "handleCallback" /\ call.pc = "user"
    /\ call.userRequests = 1 /\ Len(call.requests) = 1
    /\ storage[StateKey] = None /\ storage[TokenKey] = Some("gho_tok1")

(***************************************************************************)
(* The callback page: backoff, terminal states, the retry counter.          *)
(***************************************************************************)
\* C24 (as claimed): after a retryable failure the page stays in Processing
\* and the handler is invoked again only by the backoff timer when it is
\* due, never before.
C24_AsClaimed ==
    [][(log.invocations > 0 /\ log'.invocations > log.invocations) =>
            /\ view.status = "processing"
            /\ TimerDue /\ Head(view.timers).kind = "handler"
            /\ view'.timers = Tail(view.timers)]_vars

\* C24 (what the page does): the handler has been invoked again at the
\* instant of the first retryable failure, while the backoff timer of 1000
\* ms has all its time left.
C24_Witness ==
    /\ log.invocations = 2
    /\ view.retryCount = 1 /\ effectDep = 1
    /\ view.status = "processing"
    /\ view.timers = << [kind |-> "handler", rc |-> 0, left |-> 1000] >>

\* C25 (as claimed): once status is 'success' or 'error' it never changes
\* and the handler is never invoked again.
C25_AsClaimed ==
    [][view.status \in {"success", "error"} =>
            /\ view'.status = view.status
            /\ log'.invocations = log.invocations]_vars

\* C25 (what the page does): the page that had failed and scheduled its
\* redirect shows success, a backoff timer having invoked the handler again.
C25_Witness ==
    /\ view.status = "success"
    /\ IsSome(log.caught) /\ Val(log.caught).failed
    /\ ~redirected

\* C26 (as claimed): retryCount never exceeds MAX_RETRIES.
C26_AsClaimed == view.retryCount <= MAX_RETRIES

\* C26 (what the page does): a backoff timer of an earlier render, whose
\* retryCount is below MAX_RETRIES, counts the current retryCount up beyond
\* MAX_RETRIES.
C26_Witness ==
    /\ view.retryCount = MAX_RETRIES + 1
    /\ IsSome(log.caught) /\ Val(log.caught).retried
    /\ Val(log.caught).rc < MAX_RETRIES
    /\ ~redirected

\* C27: on the page with the real service the proxy is requested at most
\* once; every call of oauthService.handleCallback after the first is
\* rejected with the invalid-state error before any request, and the page
\* never reaches success once a second call was made.
C27_OneExchangePerLoad ==
    /\ log.proxyRequests <= 1
    /\ Len(runs) <= 1
    /\ log.svcCalls >= 2 =>
            /\ runs = << >>
            /\ IsSome(log.caught)
            /\ Val(log.caught).cause = "validateState"
            /\ Val(log.caught).error = InvalidStateError
            /\ view.status # "success"
            /\ storage[StateKey] # query.state

\* the proxy answered with a retryable message, the effect called the
\* service again, and that call was rejected for its state
C27_Witness ==
    /\ log.proxyRequests = 1 /\ log.svcCalls >= 2
    /\ view.retryCount >= 1
    /\ IsSome(log.caught) /\ Val(log.caught).error = InvalidStateError
    /\ view.status = "error"

(***************************************************************************)
(* handleCallback: stale states, failed exchanges, the token it persists.   *)
(***************************************************************************)
(* C28 as stated: with connect A, connect B, callback(A's state),           *)
(* callback(B's state) both callbacks fail validation; after any callback,  *)
(* valid or not, no state is left pending, so a callback that follows       *)
(* another callback fails.                                                  *)
C28_AsClaimed ==
    call.op = "handleCallback" =>
        /\ storage[StateKey] = None
        /\ (call.gen = 2 /\ call.arg = generateState(1)) =>
                call.error = Some(InvalidStateError)
        /\ call.wasUse # "none" => call.error = Some(InvalidStateError)

(* C28 amended: a callback that can read localStorage deletes the pending   *)
(* state whether or not its own state matches; once connect B has stored    *)
(* its state the callback with A's state fails, and a callback that follows *)
(* a callback that deleted the state fails.  A callback that cannot read    *)
(* localStorage fails and leaves the pending state where it was.            *)
C28_StaleCallback ==
    call.op = "handleCallback" =>
        /\ CanRead(call.mode) => storage[StateKey] = None
        /\ ~CanRead(call.mode) =>
                call.error = Some(InvalidStateError) /\ storage = call.pre
        /\ (call.gen = 2 /\ call.arg = generateState(1) /\ issued[2]) =>
                call.error = Some(InvalidStateError)
        /\ call.wasUse = "removed" => call.error = Some(InvalidStateError)

\* connect A, connect B, a callback that deleted B's state, and now the
\* callback with B's state fails
C28_Witness ==
    /\ call.op = "handleCallback" /\ call.gen = 2
    /\ issued[1] /\ issued[2]
    /\ call.arg = generateState(2) /\ call.wasUse = "removed"
    /\ call.pre[StateKey] = None
    /\ call.error = Some(InvalidStateError)

\* the callback with A's state could not read localStorage: B's state is
\* still pending
C28_PendingWitness ==
    /\ call.op = "handleCallback" /\ call.gen = 2 /\ issued[2]
    /\ call.arg = generateState(1) /\ call.mode = "blocked"
    /\ storage[StateKey] = Some(generateState(2))

\* the proxy was not reached, answered outside 2xx, or answered 2xx without
\* a body that carries an access_token
ExchangeFails(a) ==
    /\ IsSome(a)
    /\ \/ Val(a).kind = "rejects"
       \/ ~(Val(a).status >= 200 /\ Val(a).status <= 299)
       \/ ~Val(a).parses
       \/ Val(a).access_token \in {None, Some("")}

\* C29: when the token exchange fails, handleCallback rejects, the stored
\* token and user are what they were before the call, and the stored state
\* stays consumed.
C29_FailedExchangeFrame ==
    (call.op = "handleCallback" /\ ExchangeFails(call.answer)) =>
        /\ call.pc = "done" /\ IsSome(call.error) /\ call.ret = None
        /\ call.userRequests = 0
        /\ storage[TokenKey] = call.pre[TokenKey]
        /\ storage[UserKey] = call.pre[UserKey]
        /\ storage[StateKey] = None
        /\ isAuthenticated(storage, "ok") = isAuthenticated(call.pre, "ok")

\* a session that held a token keeps it when the proxy answers 2xx without
\* a token
C29_Witness ==
    /\ call.op = "handleCallback" /\ call.pc = "done"
    /\ call.answer = Some(Response(200, TRUE, None, None))
    /\ call.error = Some(NoTokenError)
    /\ call.pre[TokenKey] = Some("gho_old") /\ storage[TokenKey] = Some("gho_old")
    /\ IsSome(call.pre[StateKey]) /\ storage[StateKey] = None

\* C30: when handleCallback resolves, what it returns is a non-empty string
\* and is the token getToken() reads, so isAuthenticated() is true; when
\* storing the token throws, handleCallback rejects and the profile is not
\* requested.
C30_PersistsWhatItReturns ==
    call.op = "handleCallback" =>
        /\ (call.pc = "done" /\ call.error = None) =>
                /\ IsSome(call.ret) /\ Len(Val(call.ret)) > 0
                /\ getToken(storage, "ok") = call.ret
                /\ isAuthenticated(storage, "ok")
        /\ (/\ IsSome(call.answer) /\ ~ExchangeFails(call.answer)
            /\ IsSome(call.tokenMode) /\ ~CanWrite(Val(call.tokenMode))) =>
                /\ call.pc = "done" /\ IsSome(call.error)
                /\ call.userRequests = 0 /\ call.profile = "none"

\* handleCallback resolved although the profile could not be fetched
C30_Witness ==
    /\ call.op = "handleCallback" /\ call.pc = "done" /\ call.error = None
    /\ call.profile = "rejects"
    /\ call.ret = Some("gho_tok1") /\ storage[TokenKey] = Some("gho_tok1")

\* storing the token threw: the call rejected before the profile request
C30_StoreThrowsWitness ==
    /\ call.op = "handleCallback" /\ call.pc = "done"
    /\ TokenAnswer(call.answer) /\ call.tokenMode = Some("full")
    /\ call.error = Some(Error(StoreTokenError)) /\ call.userRequests = 0
====
